---------------------------- MODULE Spec2Model ----------------------------
(***************************************************************************)
(* KinNet: kinship-title inference (backend/core/inference.py) and the     *)
(* rule store with its pattern matcher (backend/core/kinship_loader.py).   *)
(*                                                                         *)
(* Conventions of the model                                                *)
(*   - a Python str is a sequence of one-character strings; a Chinese      *)
(*     title is a sequence of syllable tokens, one token per character    *)
(*     (<<"ge","ge">> is the title written with the character "ge" twice); *)
(*   - an optional value (dict.get without default, a missing key) is the  *)
(*     empty sequence <<>> when absent and <<v>> when present;             *)
(*     homophones carry a tone or a gloss (fu4 father, fu1 husband);       *)
(*   - Python indices are 0-based, the model's are 1-based;                *)
(*   - an exception that leaves infer_kinship is the outcome "raise".      *)
(***************************************************************************)
EXTENDS Integers, Sequences, FiniteSets, TLC

(***************************************************************************)
(* Strings                                                                 *)
(***************************************************************************)

\* index of the first occurrence of character c in s, 0 when there is none
IndexOf(s, c) ==
    IF \E i \in 1..Len(s) : s[i] = c
    THEN CHOOSE i \in 1..Len(s) : s[i] = c /\ \A j \in 1..(i-1) : s[j] # c
    ELSE 0

\* str.split(c): "" splits to [""], "a,b" to ["a","b"]
RECURSIVE Split(_, _)
Split(s, c) ==
    LET i == IndexOf(s, c) IN
    IF i = 0 THEN <<s>>
    ELSE <<SubSeq(s, 1, i-1)>> \o Split(SubSeq(s, i+1, Len(s)), c)

\* c.join(parts)
RECURSIVE Join(_, _)
Join(parts, c) ==
    IF parts = <<>> THEN <<>>
    ELSE IF Len(parts) = 1 THEN parts[1]
    ELSE parts[1] \o <<c>> \o Join(Tail(parts), c)

\* s.endswith(suf)
EndsWith(s, suf) ==
    /\ Len(s) >= Len(suf)
    /\ SubSeq(s, Len(s) - Len(suf) + 1, Len(s)) = suf

\* s.startswith(pre)
StartsWith(s, pre) ==
    /\ Len(s) >= Len(pre)
    /\ SubSeq(s, 1, Len(pre)) = pre

\* the concatenation of a sequence of sequences
RECURSIVE Flatten(_)
Flatten(ss) == IF ss = <<>> THEN <<>> ELSE ss[1] \o Flatten(Tail(ss))

\* the elements of a sequence
Range(s) == {s[i] : i \in 1..Len(s)}

\* a list without its later duplicates (first occurrence kept)
RECURSIVE Dedup(_)
Dedup(s) ==
    IF s = <<>> THEN <<>>
    ELSE LET init == Dedup(SubSeq(s, 1, Len(s) - 1))
             last == s[Len(s)]
         IN IF last \in Range(init) THEN init ELSE Append(init, last)

\* the chain atoms, as strings
A_f  == <<"f">>
A_m  == <<"m">>
A_s  == <<"s">>
A_d  == <<"d">>
A_h  == <<"h">>
A_w  == <<"w">>
A_ob == <<"o", "b">>
A_lb == <<"l", "b">>
A_os == <<"o", "s">>
A_ls == <<"l", "s">>
A_xb == <<"x", "b">>
A_xs == <<"x", "s">>
A_so == <<"s", "&", "o">>
A_sl == <<"s", "&", "l">>
A_do == <<"d", "&", "o">>
A_dl == <<"d", "&", "l">>

\* the closed alphabet of chain atoms (spec.md section 3)
Alphabet ==
    {A_f, A_m, A_s, A_d, A_h, A_w, A_ob, A_lb, A_os, A_ls, A_xb, A_xs,
     A_so, A_sl, A_do, A_dl}

(***************************************************************************)
(* The request: node records and edge records                              *)
(***************************************************************************)

\* dict.get(key) of an optional field and dict.get(key, default)
Known(opt) == opt # <<>>
GetOr(opt, default) == IF opt = <<>> THEN default ELSE opt[1]

\* node_data.get(nid, {}) : the node's record, or the empty dict
EmptyNode == [gender |-> <<>>, x |-> <<>>, y |-> <<>>]
NodeOrEmpty(node_data, nid) ==
    IF nid \in DOMAIN node_data THEN node_data[nid] ELSE EmptyNode

(***************************************************************************)
(* _build_graph: a networkx DiGraph                                        *)
(*   nodes : the node set                                                  *)
(*   order : the directed edges in the order they were first added (the    *)
(*           iteration order of successors and predecessors)               *)
(*   rel   : the relation attribute of each directed edge                  *)
(***************************************************************************)
EmptyGraph == [nodes |-> {}, order |-> <<>>, rel |-> <<>>]

\* G.add_edge(u, v, relation=...): adds the endpoints, adds the edge or
\* overwrites the attribute of the edge that is already there
add_edge(G, u, v, relation) ==
    [nodes |-> G.nodes \cup {u, v},
     order |-> IF <<u, v>> \in Range(G.order) THEN G.order
               ELSE Append(G.order, <<u, v>>),
     rel   |-> [p \in Range(G.order) \cup {<<u, v>>} |->
                   IF p = <<u, v>> THEN relation ELSE G.rel[p]]]

\* a faulty edge loop: a spouse_of record adds its own direction only
AddEdgeRecord_one_way(G, e) ==
    IF e.label = "parent_of"
    THEN add_edge(G, e.source, e.target, "parent_of")
    ELSE IF e.label = "spouse_of"
    THEN add_edge(G, e.source, e.target, "spouse_of")
    ELSE G

\* one iteration of the edge loop of _build_graph
AddEdgeRecord(G, e) ==
    IF e.label = "parent_of"
    THEN add_edge(G, e.source, e.target, "parent_of")
    ELSE IF e.label = "spouse_of"
    THEN add_edge(add_edge(G, e.source, e.target, "spouse_of"),
                  e.target, e.source, "spouse_of")
    ELSE G

RECURSIVE AddEdgeRecords(_, _)
AddEdgeRecords(G, edges) ==
    IF edges = <<>> THEN G
    ELSE AddEdgeRecords(AddEdgeRecord(G, Head(edges)), Tail(edges))

\* _build_graph(nodes, edges): node_data is the by-id dictionary `nodes`
\* itself; the graph holds the listed nodes and every edge endpoint
build_graph(node_data, edges) ==
    AddEdgeRecords([EmptyGraph EXCEPT !.nodes = DOMAIN node_data], edges)

has_edge(G, u, v) == <<u, v>> \in Range(G.order)
Relation(G, u, v) == G.rel[<<u, v>>]

\* G.successors(u) and G.predecessors(v), in insertion order
successors(G, u) ==
    LET IsOut(p) == p[1] = u
        out == SelectSeq(G.order, IsOut)
    IN [i \in 1..Len(out) |-> out[i][2]]

predecessors(G, v) ==
    LET IsIn(p) == p[2] = v
        inc == SelectSeq(G.order, IsIn)
    IN [i \in 1..Len(inc) |-> inc[i][1]]

(***************************************************************************)
(* _find_path: shortest path in the undirected projection G.to_undirected() *)
(***************************************************************************)
Adjacent(G, u, v) == has_edge(G, u, v) \/ has_edge(G, v, u)

\* the nodes within k hops of s in the undirected projection
RECURSIVE ReachWithin(_, _, _)
ReachWithin(G, s, k) ==
    IF k = 0 THEN {s}
    ELSE LET R == ReachWithin(G, s, k - 1)
         IN R \cup {v \in G.nodes : \E u \in R : Adjacent(G, u, v)}

\* nx.has_path(U, s, t) once both ids are nodes of the graph
Connected(G, s, t) == t \in ReachWithin(G, s, Cardinality(G.nodes))

Distance(G, s, t) ==
    CHOOSE k \in 0..Cardinality(G.nodes) :
        /\ t \in ReachWithin(G, s, k)
        /\ \A j \in 0..(k-1) : t \notin ReachWithin(G, s, j)

\* every shortest path from s to t.  nx.shortest_path returns one of them;
\* which one is the library's tie-break, left open here.
ShortestPaths(G, s, t) ==
    LET L == Distance(G, s, t) IN
    {p \in [1..(L+1) -> G.nodes] :
        /\ p[1] = s
        /\ p[L+1] = t
        /\ \A i \in 1..L : Adjacent(G, p[i], p[i+1])}

(***************************************************************************)
(* _path_to_graph_signature                                                *)
(***************************************************************************)

\* node_data[v] raises KeyError for an id that is a node of the graph only
\* because an edge names it
SignatureRaises(path, node_data) ==
    \E i \in 2..Len(path) : path[i] \notin DOMAIN node_data

\* what one hop u -> v appends to the signature: one element, or nothing
\* when none of the three branches applies
HopSignature(G, u, v, node_data) ==
    LET v_gender == GetOr(node_data[v].gender, "M") IN
    IF has_edge(G, v, u) /\ Relation(G, v, u) = "parent_of"
    THEN << <<"parent", v_gender>> >>
    ELSE IF has_edge(G, u, v) /\ Relation(G, u, v) = "parent_of"
    THEN << <<"child", v_gender>> >>
    ELSE IF has_edge(G, u, v) /\ Relation(G, u, v) = "spouse_of"
    THEN << <<"spouse", v_gender>> >>
    ELSE <<>>

path_to_graph_signature(G, path, node_data) ==
    Flatten([i \in 1..(Len(path) - 1) |->
                HopSignature(G, path[i], path[i+1], node_data)])

(***************************************************************************)
(* _signature_to_chain                                                     *)
(***************************************************************************)
\* a faulty table: a spouse hop has no atom
ACTION_MAP_no_spouse(action, gender) ==
    IF action = "parent" /\ gender = "M" THEN <<A_f>>
    ELSE IF action = "parent" /\ gender = "F" THEN <<A_m>>
    ELSE IF action = "child" /\ gender = "M" THEN <<A_s>>
    ELSE IF action = "child" /\ gender = "F" THEN <<A_d>>
    ELSE <<>>

ACTION_MAP(action, gender) ==
    IF action = "parent" /\ gender = "M" THEN <<A_f>>
    ELSE IF action = "parent" /\ gender = "F" THEN <<A_m>>
    ELSE IF action = "child" /\ gender = "M" THEN <<A_s>>
    ELSE IF action = "child" /\ gender = "F" THEN <<A_d>>
    ELSE IF action = "spouse" /\ gender = "M" THEN <<A_h>>
    ELSE IF action = "spouse" /\ gender = "F" THEN <<A_w>>
    ELSE <<>>

\* a faulty is_direct: any pair that opens the signature counts as direct
IsDirectPair_first_only(i, signature) == i = 1

\* is_direct (line 102): the pair at cursor i is the whole signature
IsDirectPair(i, signature) == i = 1 /\ i + 1 = Len(signature)

\* the atom emitted for a parent->child pair at cursor i (lines 100-124)
SiblingAtom(i, signature, path, node_data) ==
    LET next_gender == signature[i+1][2] IN
    IF IsDirectPair(i, signature)
    THEN LET from_x == NodeOrEmpty(node_data, path[i]).x
             to_x   == NodeOrEmpty(node_data, path[i+2]).x
         IN IF Known(from_x) /\ Known(to_x) /\ from_x # to_x
            THEN IF next_gender = "M"
                 THEN (IF to_x[1] < from_x[1] THEN A_ob ELSE A_lb)
                 ELSE (IF to_x[1] < from_x[1] THEN A_os ELSE A_ls)
            ELSE (IF next_gender = "M" THEN A_xb ELSE A_xs)
    ELSE (IF next_gender = "M" THEN A_xb ELSE A_xs)

\* the while loop of lines 92-131, from cursor i on
RECURSIVE ChainParts(_, _, _, _)
ChainParts(i, signature, path, node_data) ==
    IF i > Len(signature) THEN <<>>
    ELSE IF /\ signature[i][1] = "parent"
            /\ i + 1 <= Len(signature)
            /\ signature[i+1][1] = "child"
    THEN <<SiblingAtom(i, signature, path, node_data)>>
            \o ChainParts(i + 2, signature, path, node_data)
    ELSE ACTION_MAP(signature[i][1], signature[i][2])
            \o ChainParts(i + 1, signature, path, node_data)

\* abs(src_y - tgt_y) < 100
SAME_ROW == 100
Abs(n) == IF n < 0 THEN -n ELSE n

\* lines 136-152: the &o / &l suffix on a final s or d
WithSuffix(chain_parts, path, node_data) ==
    IF chain_parts # <<>> /\ chain_parts[Len(chain_parts)] \in {A_s, A_d}
       /\ Len(path) >= 2
    THEN LET src == NodeOrEmpty(node_data, path[1])
             tgt == NodeOrEmpty(node_data, path[Len(path)])
             n   == Len(chain_parts)
         IN IF /\ Known(src.x) /\ Known(tgt.x) /\ Known(src.y) /\ Known(tgt.y)
               /\ Abs(src.y[1] - tgt.y[1]) < SAME_ROW
               /\ src.x # tgt.x
            THEN [chain_parts EXCEPT ![n] =
                     @ \o (IF tgt.x[1] < src.x[1] THEN <<"&", "o">>
                                                  ELSE <<"&", "l">>)]
            ELSE chain_parts
    ELSE chain_parts

signature_to_chain(signature, path, node_data) ==
    Join(WithSuffix(ChainParts(1, signature, path, node_data), path, node_data),
         ",")

(***************************************************************************)
(* _try_with_elder_younger                                                 *)
(***************************************************************************)
SiblingAtoms == {A_ob, A_lb, A_os, A_ls, A_xb, A_xs}

VARIANTS_MAP(original) ==
    IF original = A_ob THEN <<A_ob, A_xb, A_so>>
    ELSE IF original = A_lb THEN <<A_lb, A_xb, A_sl>>
    ELSE IF original = A_os THEN <<A_os, A_xs, A_do>>
    ELSE IF original = A_ls THEN <<A_ls, A_xs, A_dl>>
    ELSE IF original = A_xb THEN <<A_xb, A_so, A_sl, A_ob, A_lb>>
    ELSE IF original = A_xs THEN <<A_xs, A_do, A_dl, A_os, A_ls>>
    ELSE <<original>>

\* sibling_indices (line 168), ascending
SiblingIndices(parts) ==
    SelectSeq([i \in 1..Len(parts) |-> i], LAMBDA i : parts[i] \in SiblingAtoms)

HasSuffix(part) == EndsWith(part, <<"&", "o">>) \/ EndsWith(part, <<"&", "l">>)

\* _generate(idx, current_parts) (lines 186-201)
RECURSIVE Generate(_, _, _, _)
Generate(idx, current_parts, parts, sibling_indices) ==
    IF idx > Len(sibling_indices) THEN <<Join(current_parts, ",")>>
    ELSE LET pos == sibling_indices[idx]
             vs  == VARIANTS_MAP(parts[pos])
         IN Dedup(Flatten([k \in 1..Len(vs) |->
                Generate(idx + 1, [current_parts EXCEPT ![pos] = vs[k]],
                         parts, sibling_indices)]))

\* lines 214-221: a variant followed by its twin without the &o / &l suffix
WithStrippedTwin(v) ==
    LET v_parts == Split(v, ",")
        n       == Len(v_parts)
    IN IF HasSuffix(v_parts[n])
       THEN <<v, Join([v_parts EXCEPT ![n] = Split(v_parts[n], "&")[1]], ",")>>
       ELSE <<v>>

\* list.remove(x): the list without the first occurrence of x
RemoveFirst(s, x) ==
    IF x \in Range(s)
    THEN LET i == CHOOSE k \in 1..Len(s) :
                      s[k] = x /\ \A j \in 1..(k-1) : s[j] # x
         IN SubSeq(s, 1, i-1) \o SubSeq(s, i+1, Len(s))
    ELSE s

\* a faulty CanonicalFirst: the chain is inserted without being removed
CanonicalFirst_no_remove(chain, all_variants) == <<chain>> \o all_variants

\* lines 223-226: the canonical chain is moved to the front
CanonicalFirst(chain, all_variants) == <<chain>> \o RemoveFirst(all_variants, chain)

try_with_elder_younger(chain) ==
    LET parts            == Split(chain, ",")
        sibling_indices  == SiblingIndices(parts)
        has_suffix       == HasSuffix(parts[Len(parts)])
    IN IF sibling_indices = <<>> /\ ~has_suffix THEN <<chain>>
       ELSE LET base_variants ==
                    IF sibling_indices # <<>>
                    THEN Generate(1, parts, parts, sibling_indices)
                    ELSE <<chain>>
                all_variants ==
                    Dedup(Flatten([k \in 1..Len(base_variants) |->
                                      WithStrippedTwin(base_variants[k])]))
            IN CanonicalFirst(chain, all_variants)

(***************************************************************************)
(* _get_direct_rank, _get_rank_among_siblings                              *)
(***************************************************************************)

\* get_x (lines 294-298): a missing x sorts as 0
get_x(node_data, nid) == GetOr(NodeOrEmpty(node_data, nid).x, 0)

\* parents (lines 271-275)
ParentsOf(G, target_id) ==
    {p \in Range(predecessors(G, target_id)) : Relation(G, p, target_id) = "parent_of"}

\* siblings (lines 281-288): the children of the target's parents that have a
\* node record whose gender is the target's
SiblingSet(G, node_data, target_id) ==
    LET target_gender == GetOr(node_data[target_id].gender, "M") IN
    {c \in G.nodes :
        /\ \E p \in ParentsOf(G, target_id) :
              has_edge(G, p, c) /\ Relation(G, p, c) = "parent_of"
        /\ c \in DOMAIN node_data
        /\ node_data[c].gender = <<target_gender>>}

\* The possible results of _get_direct_rank.  sorted() is stable and the
\* siblings are a set of strings, whose iteration order is not fixed, so the
\* target may take any place among the siblings that share its x.
direct_rank(G, node_data, target_id) ==
    IF target_id \notin DOMAIN node_data THEN {<<0, 0>>}
    ELSE IF ParentsOf(G, target_id) = {} THEN {<<0, 0>>}
    ELSE LET siblings == SiblingSet(G, node_data, target_id) IN
         IF Cardinality(siblings) <= 1 THEN {<<0, 0>>}
         ELSE IF target_id \notin siblings THEN {<<0, 0>>}
         ELSE LET tx     == get_x(node_data, target_id)
                  before == {c \in siblings : get_x(node_data, c) < tx}
                  ties   == {c \in siblings : get_x(node_data, c) = tx}
              IN {<<Cardinality(before) + k, Cardinality(siblings)>> :
                      k \in 1..Cardinality(ties)}

\* total does not depend on the order of the ties
direct_total(G, node_data, target_id) ==
    (CHOOSE r \in direct_rank(G, node_data, target_id) : TRUE)[2]

\* the spouses visited by the two loops of lines 246-257, in order
SpouseCandidates(G, target_id) ==
    SelectSeq(successors(G, target_id),
              LAMBDA n : Relation(G, target_id, n) = "spouse_of")
    \o SelectSeq(predecessors(G, target_id),
                 LAMBDA n : Relation(G, n, target_id) = "spouse_of")

\* the possible results of _get_rank_among_siblings
get_rank_among_siblings(G, node_data, target_id) ==
    IF direct_total(G, node_data, target_id) >= 2
    THEN direct_rank(G, node_data, target_id)
    ELSE LET cands == SelectSeq(SpouseCandidates(G, target_id),
                          LAMBDA n : direct_total(G, node_data, n) >= 2)
         IN IF cands = <<>> THEN {<<0, 0>>}
            ELSE direct_rank(G, node_data, cands[1])

(***************************************************************************)
(* _apply_rank_to_title                                                    *)
(***************************************************************************)

\* decimal digits of a positive integer: str(r)
RECURSIVE Digits(_)
Digits(n) ==
    LET d == <<"0", "1", "2", "3", "4", "5", "6", "7", "8", "9">>[(n % 10) + 1]
    IN IF n < 10 THEN <<d>> ELSE Append(Digits(n \div 10), d)

\* _CN_NUMBERS.get(r, str(r))
CN_NUMBERS(r) ==
    IF r \in 1..10
    THEN << <<"da", "er", "san", "si4", "wu", "liu", "qi1", "ba", "jiu3", "shi">>[r] >>
    ELSE Digits(r)

\* _RANK_RULES: title -> (what precedes the ordinal, what follows it);
\* an empty domain member means the title has no rule
RANK_RULES ==
    LET R(title, pre, post) == [title |-> title, pre |-> pre, post |-> post] IN
    { R(<<"ge", "ge">>, <<>>, <<"ge">>),
      R(<<"di", "di">>, <<>>, <<"di">>),
      R(<<"jie", "jie">>, <<>>, <<"jie">>),
      R(<<"mei", "mei">>, <<>>, <<"mei">>),
      R(<<"bo", "fu4">>, <<>>, <<"bo">>),
      R(<<"shu", "shu">>, <<>>, <<"shu">>),
      R(<<"gu", "gu">>, <<>>, <<"gu">>),
      R(<<"jiu4", "jiu4">>, <<>>, <<"jiu4">>),
      R(<<"yi", "ma">>, <<>>, <<"yi">>),
      R(<<"bo", "mu">>, <<>>, <<"bo", "mu">>),
      R(<<"shen", "shen">>, <<>>, <<"shen">>),
      R(<<"jiu4", "ma">>, <<>>, <<"jiu4", "ma">>),
      R(<<"yi", "fu1">>, <<>>, <<"yi", "fu1">>),
      R(<<"tang", "ge">>, <<"tang">>, <<"ge">>),
      R(<<"tang", "di">>, <<"tang">>, <<"di">>),
      R(<<"tang", "jie">>, <<"tang">>, <<"jie">>),
      R(<<"tang", "mei">>, <<"tang">>, <<"mei">>),
      R(<<"biao", "ge">>, <<"biao">>, <<"ge">>),
      R(<<"biao", "di">>, <<"biao">>, <<"di">>),
      R(<<"biao", "jie">>, <<"biao">>, <<"jie">>),
      R(<<"biao", "mei">>, <<"biao">>, <<"mei">>),
      R(<<"ye", "ye">>, <<>>, <<"ye", "ye">>),
      R(<<"nai", "nai">>, <<>>, <<"nai", "nai">>),
      R(<<"wai", "gong">>, <<>>, <<"wai", "gong">>),
      R(<<"wai", "po">>, <<>>, <<"wai", "po">>) }

apply_rank_to_title(title, rank, total) ==
    IF total < 2 \/ rank < 1 THEN title
    ELSE IF \E r \in RANK_RULES : r.title = title
    THEN LET rule == CHOOSE r \in RANK_RULES : r.title = title
         IN rule.pre \o CN_NUMBERS(rank) \o rule.post
    ELSE title

\* _is_direct_lineage
is_direct_lineage(signature) ==
    \A i \in 1..Len(signature) : signature[i][1] \in {"parent", "child"}

(***************************************************************************)
(* kinship_loader.py: the pattern matcher                                  *)
(***************************************************************************)

\* the value cached for a pattern that raised ValueError / re.error
NoneRegex == [valid |-> FALSE, elems |-> <<>>]

\* pattern.index(c, i): first index >= i holding c, 0 for ValueError
IndexFrom(s, c, i) ==
    IF \E j \in i..Len(s) : s[j] = c
    THEN CHOOSE j \in i..Len(s) : s[j] = c /\ \A k \in i..(j-1) : s[k] # c
    ELSE 0

\* The body of _combined_pattern_to_regex (lines 161-180) from cursor i on:
\* the compiled expression as the list of its elements, each a list of
\* literal alternatives ("(?:a|b)" is <<a, b>>, an escaped character c is
\* <<c>>); an unclosed '[' gives NoneRegex.
RECURSIVE CompileFrom(_, _)
CompileFrom(pattern, i) ==
    IF i > Len(pattern) THEN [valid |-> TRUE, elems |-> <<>>]
    ELSE IF pattern[i] = "["
    THEN LET j == IndexFrom(pattern, "]", i) IN
         IF j = 0 THEN NoneRegex
         ELSE LET alternatives == Split(SubSeq(pattern, i+1, j-1), "|")
                  rest == CompileFrom(pattern, j + 1)
              IN IF rest.valid
                 THEN [valid |-> TRUE, elems |-> <<alternatives>> \o rest.elems]
                 ELSE NoneRegex
    ELSE LET rest == CompileFrom(pattern, i + 1)
         IN IF rest.valid
            THEN [valid |-> TRUE, elems |-> << <<<<pattern[i]>>>> >> \o rest.elems]
            ELSE NoneRegex

\* what _combined_pattern_to_regex computes and caches for a pattern
Compile(pattern) == CompileFrom(pattern, 1)

\* regex.fullmatch(chain) is not None
RECURSIVE FullMatch(_, _)
FullMatch(elems, chain) ==
    IF elems = <<>> THEN chain = <<>>
    ELSE \E k \in 1..Len(elems[1]) :
            /\ StartsWith(chain, elems[1][k])
            /\ FullMatch(Tail(elems),
                         SubSeq(chain, Len(elems[1][k]) + 1, Len(chain)))

match_combined_pattern(pattern, chain) ==
    LET regex == Compile(pattern) IN
    regex.valid /\ FullMatch(regex.elems, chain)

\* a comma-separated string from its atoms
C(atoms) == Join(atoms, ",")

\* TEMPLATE_VARS (lines 127-140)
V_G0  == <<"{", "G", "0", "}">>
V_G1  == <<"{", "G", "1", "}">>
V_G1M == <<"{", "G", "1", "M", "}">>
V_G1W == <<"{", "G", "1", "W", "}">>
V_G2  == <<"{", "G", "2", "}">>
V_M0  == <<"{", "M", "0", "}">>
V_M1M == <<"{", "M", "1", "M", "}">>
V_M1W == <<"{", "M", "1", "W", "}">>
V_M2M == <<"{", "M", "2", "M", "}">>
V_M2W == <<"{", "M", "2", "W", "}">>
V_Mm1 == <<"{", "M", "-", "1", "}">>

TEMPLATE_VARS ==
    (V_G0 :> << <<>> >>)
    @@ (V_G1 :> <<A_f, A_m>>)
    @@ (V_G1M :> <<A_f>>)
    @@ (V_G1W :> <<A_m>>)
    @@ (V_G2 :> <<C(<<A_f, A_f>>), C(<<A_f, A_m>>), C(<<A_m, A_f>>), C(<<A_m, A_m>>)>>)
    @@ (V_M0 :> <<A_h, A_w>>)
    @@ (V_M1M :> <<C(<<A_h, A_f>>), C(<<A_w, A_f>>)>>)
    @@ (V_M1W :> <<C(<<A_h, A_m>>), C(<<A_w, A_m>>)>>)
    @@ (V_M2M :> <<C(<<A_h, A_f, A_f>>), C(<<A_h, A_f, A_m>>),
                   C(<<A_w, A_f, A_f>>), C(<<A_w, A_f, A_m>>),
                   C(<<A_h, A_m, A_f>>), C(<<A_h, A_m, A_m>>),
                   C(<<A_w, A_m, A_f>>), C(<<A_w, A_m, A_m>>)>>)
    @@ (V_M2W :> <<C(<<A_h, A_m, A_f>>), C(<<A_h, A_m, A_m>>),
                   C(<<A_w, A_m, A_f>>), C(<<A_w, A_m, A_m>>)>>)
    @@ (V_Mm1 :> <<A_s, A_d>>)

\* re.search(r'\{[^}]+\}', pattern): <<start, end>> of the leftmost match,
\* <<0, 0>> when there is none.  A '{' starts a match when the first '}'
\* after it is at least two characters further on.
SearchVar(pattern) ==
    LET Starts(i) == /\ pattern[i] = "{"
                     /\ IndexFrom(pattern, "}", i + 1) >= i + 2
    IN IF \E i \in 1..Len(pattern) : Starts(i)
       THEN LET i == CHOOSE k \in 1..Len(pattern) :
                         Starts(k) /\ \A j \in 1..(k-1) : ~Starts(j)
            IN <<i, IndexFrom(pattern, "}", i + 1)>>
       ELSE <<0, 0>>

\* s.rstrip(',') and s.lstrip(',')
RECURSIVE rstrip(_)
rstrip(s) ==
    IF s # <<>> /\ s[Len(s)] = "," THEN rstrip(SubSeq(s, 1, Len(s) - 1)) ELSE s

RECURSIVE lstrip(_)
lstrip(s) == IF s # <<>> /\ s[1] = "," THEN lstrip(Tail(s)) ELSE s

\* a faulty splice: an empty replacement leaves the commas where they are
Substitute_keep_commas(pattern, m, replacement) ==
    SubSeq(pattern, 1, m[1] - 1) \o replacement \o SubSeq(pattern, m[2] + 1, Len(pattern))

\* new_pattern (lines 211-221) for one replacement of the variable at m
Substitute(pattern, m, replacement) ==
    LET head == SubSeq(pattern, 1, m[1] - 1)
        tail == SubSeq(pattern, m[2] + 1, Len(pattern))
    IN IF replacement # <<>> THEN head \o replacement \o tail
       ELSE LET before == rstrip(head)
                after  == lstrip(tail)
            IN IF before # <<>> /\ after # <<>> THEN before \o <<",">> \o after
               ELSE before \o after

RECURSIVE expand_template(_)
expand_template(pattern) ==
    LET m == SearchVar(pattern) IN
    IF m = <<0, 0>> THEN <<pattern>>
    ELSE LET var == SubSeq(pattern, m[1], m[2]) IN
         IF var \notin DOMAIN TEMPLATE_VARS THEN <<pattern>>
         ELSE LET reps == TEMPLATE_VARS[var]
              IN Flatten([k \in 1..Len(reps) |->
                            expand_template(Substitute(pattern, m, reps[k]))])

match_branch_pattern(pattern, chain) ==
    LET expanded == expand_template(pattern) IN
    \E k \in 1..Len(expanded) : match_combined_pattern(expanded[k], chain)

(***************************************************************************)
(* KinshipData: the rule store                                             *)
(*   primary_rules  : dict chain -> info                                   *)
(*   combined_rules : list of info                                         *)
(*   branch_rules   : list of info                                         *)
(* info is [title, aliases, chain].  A lookup returns <<info>> for a hit   *)
(* and <<>> for None.                                                      *)
(***************************************************************************)
lookup_primary(data, chain) ==
    IF chain \in DOMAIN data.primary_rules
    THEN <<data.primary_rules[chain]>> ELSE <<>>

\* the first element of rules whose pattern matches, by `matches`
FirstMatch(rules, matches(_, _), chain) ==
    LET hits == SelectSeq(rules, LAMBDA rule : matches(rule.chain, chain))
    IN IF hits = <<>> THEN <<>> ELSE <<hits[1]>>

\* a faulty scan: the last matching rule is kept
lookup_combined_last(data, chain) ==
    LET hits == SelectSeq(data.combined_rules,
                          LAMBDA rule : match_combined_pattern(rule.chain, chain))
    IN IF hits = <<>> THEN <<>> ELSE <<hits[Len(hits)]>>

lookup_combined(data, chain) ==
    FirstMatch(data.combined_rules, match_combined_pattern, chain)

lookup_branch(data, chain) ==
    FirstMatch(data.branch_rules, match_branch_pattern, chain)

(***************************************************************************)
(* infer_kinship                                                           *)
(***************************************************************************)
T_NO_RELATION == <<"mei", "you", "qin", "qi", "guan", "xi">>
T_CANNOT      == <<"wu", "fa", "ji", "suan", "cheng", "hu">>
T_DISTANT     == <<"yuan", "fang", "qin", "qi">>
D_NO_PATH     == <<"liang", "ren", "zhi", "jian", "mei", "you", "lu", "jing", "lian", "jie">>
ARROW         == " -> "
DE            == "de"

\* step_names (lines 416-421)
step_names ==
    (A_f :> <<"fu4">>) @@ (A_m :> <<"mu">>) @@ (A_s :> <<"zi">>)
    @@ (A_d :> <<"nv">>) @@ (A_h :> <<"fu1">>) @@ (A_w :> <<"qi_wife">>)
    @@ (A_xb :> <<"xiong", "di">>) @@ (A_xs :> <<"jie", "mei">>)
    @@ (A_ob :> <<"xiong">>) @@ (A_lb :> <<"di">>)
    @@ (A_os :> <<"jie">>) @@ (A_ls :> <<"mei">>)
    @@ (A_so :> <<"zi", "(", "zhang", ")">>) @@ (A_sl :> <<"zi", "(", "you", ")">>)
    @@ (A_do :> <<"nv", "(", "zhang", ")">>) @@ (A_dl :> <<"nv", "(", "you", ")">>)

\* step_names.get(p, step_names.get(p.split("&")[0], p))
StepName(p) ==
    IF p \in DOMAIN step_names THEN step_names[p]
    ELSE LET q == Split(p, "&")[1]
         IN IF q \in DOMAIN step_names THEN step_names[q] ELSE p

\* path_desc (lines 422-423)
PathDesc(chain) ==
    LET path_parts == Split(chain, ",")
    IN Join([i \in 1..Len(path_parts) |-> StepName(path_parts[i])], ARROW)

\* path_desc.replace(" -> ", "de") if path_desc else the fixed title
FallbackTitle(path_desc) ==
    IF path_desc # <<>>
    THEN [i \in 1..Len(path_desc) |->
             IF path_desc[i] = ARROW THEN DE ELSE path_desc[i]]
    ELSE T_DISTANT

Result(title, aliases, chain, match_type, path_desc) ==
    [title |-> title, aliases |-> aliases, chain |-> chain,
     match_type |-> match_type, path_desc |-> path_desc]

\* an exception leaves infer_kinship: there is no result record
Raised(exception) == Result(<<>>, <<>>, <<>>, "raise", <<exception>>)

\* the first variant for which lookup(data, variant) is a hit, 0 when none
FirstHit(lookup(_, _), data, variants) ==
    IF \E k \in 1..Len(variants) : lookup(data, variants[k]) # <<>>
    THEN CHOOSE k \in 1..Len(variants) :
            /\ lookup(data, variants[k]) # <<>>
            /\ \A j \in 1..(k-1) : lookup(data, variants[j]) = <<>>
    ELSE 0

\* a faulty matcher: every tier is tried on a variant before the next variant
Match_variant_major(data, variants, chain, rank, total, path_desc) ==
    LET Hit(lookup(_, _), k, match_type) ==
            LET rule == lookup(data, variants[k])[1] IN
            Result(apply_rank_to_title(rule.title, rank, total), rule.aliases,
                   variants[k], match_type, path_desc)
        Hits(k) == \/ lookup_primary(data, variants[k]) # <<>>
                  \/ lookup_combined(data, variants[k]) # <<>>
                  \/ lookup_branch(data, variants[k]) # <<>>
    IN IF \E k \in 1..Len(variants) : Hits(k)
       THEN LET k == CHOOSE i \in 1..Len(variants) :
                        Hits(i) /\ \A j \in 1..(i-1) : ~Hits(j)
            IN IF lookup_primary(data, variants[k]) # <<>>
               THEN Hit(lookup_primary, k, "primary")
               ELSE IF lookup_combined(data, variants[k]) # <<>>
               THEN Hit(lookup_combined, k, "combined")
               ELSE Hit(lookup_branch, k, "branch")
       ELSE Result(FallbackTitle(path_desc), <<>>, chain, "fallback", path_desc)

\* lines 439-494: the three tiers, then the fallback
Match(data, variants, chain, rank, total, path_desc) ==
    LET Hit(lookup(_, _), k, match_type) ==
            LET rule == lookup(data, variants[k])[1] IN
            Result(apply_rank_to_title(rule.title, rank, total), rule.aliases,
                   variants[k], match_type, path_desc)
        p == FirstHit(lookup_primary, data, variants)
        c == FirstHit(lookup_combined, data, variants)
        b == FirstHit(lookup_branch, data, variants)
    IN IF p # 0 THEN Hit(lookup_primary, p, "primary")
       ELSE IF c # 0 THEN Hit(lookup_combined, c, "combined")
       ELSE IF b # 0 THEN Hit(lookup_branch, b, "branch")
       ELSE Result(FallbackTitle(path_desc), <<>>, chain, "fallback", path_desc)

\* lines 430-437: (rank, total), every possible value
RankFor(G, node_data, target_id, signature) ==
    IF is_direct_lineage(signature) THEN {<<0, 0>>}
    ELSE get_rank_among_siblings(G, node_data, target_id)

\* what infer_kinship has computed when it returns with a result
Locals(G, path, signature, chain, variants, rank, total) ==
    [G |-> G, path |-> path, signature |-> signature, chain |-> chain,
     is_direct |-> is_direct_lineage(signature),
     variants |-> variants, rank |-> rank, total |-> total]

NoLocals == Locals(EmptyGraph, <<>>, <<>>, <<>>, <<>>, 0, 0)

\* Every possible run of infer_kinship(source_id, target_id, nodes, edges)
\* against the rule store data, as pairs <<result, locals>>.
\* nx.has_path raises NodeNotFound when an id is no node of the graph.
infer_kinship(data, source_id, target_id, node_data, edges) ==
    LET G == build_graph(node_data, edges)
        Early(result) == {<<result, [NoLocals EXCEPT !.G = G]>>}
    IN
    IF source_id \notin G.nodes \/ target_id \notin G.nodes
    THEN Early(Raised("NodeNotFound"))
    ELSE IF ~Connected(G, source_id, target_id)
    THEN Early(Result(T_NO_RELATION, <<>>, <<>>, "none", D_NO_PATH))
    ELSE UNION { 
        IF path = <<>>
        THEN Early(Result(T_CANNOT, <<>>, <<>>, "error", <<>>))
        ELSE IF SignatureRaises(path, node_data)
        THEN {<<Raised("KeyError"), [NoLocals EXCEPT !.G = G, !.path = path]>>}
        ELSE LET signature == path_to_graph_signature(G, path, node_data)
                 chain     == signature_to_chain(signature, path, node_data)
                 path_desc == PathDesc(chain)
                 variants  == try_with_elder_younger(chain)
             IN { <<Match(data, variants, chain, rt[1], rt[2], path_desc),
                    Locals(G, path, signature, chain, variants, rt[1], rt[2])>> :
                  rt \in RankFor(G, node_data, target_id, signature) }
        : path \in ShortestPaths(G, source_id, target_id) }

(***************************************************************************)
(* The state                                                               *)
(*   data    : the loaded rule store the requests are answered from        *)
(*   req     : the request being answered (NoRequest between requests)     *)
(*   result  : what infer_kinship returned for req                         *)
(*   locals  : the locals of that run of infer_kinship                     *)
(*   call    : a call of one of the helper functions, with its return      *)
(*             value (NoCall when none is under way)                       *)
(*   pc, frame : per thread, the statement it is at and its locals         *)
(*   instances : the KinshipData objects created so far                    *)
(*   _data_instance : the module global, an index of instances, 0 = None   *)
(*   _combined_regex_cache : the module global dict pattern -> compiled    *)
(*   hist    : history of the run: objects created, load() bodies begun,   *)
(*             writes per cache key (not program state)                    *)
(***************************************************************************)
VARIABLES data, req, result, locals, call,
          pc, frame, instances, _data_instance, _combined_regex_cache, hist

inferVars  == <<data, req, result, locals>>
threadVars == <<pc, frame, instances, _data_instance, _combined_regex_cache, hist>>
vars       == <<inferVars, call, threadVars>>

(***************************************************************************)
(* Bounded inputs                                                          *)
(***************************************************************************)
Ids == {"a", "b", "c"}

\* the longest edge list of a request
MaxEdges == 2

Genders == {"M", "F"}

Pos(x, y) == [x |-> <<x>>, y |-> <<y>>]
NoPos == [x |-> <<>>, y |-> <<>>]

\* Layouts.  The requests below are asked by "a" about "a" or "b", so "a"
\* is placed or not, "b" is left or right of it, on the same place, on
\* another row, or not placed, and "c" is placed or not.
PositionsOf(id) ==
    IF id = "a" THEN {NoPos, Pos(100, 0)}
    ELSE IF id = "b" THEN {NoPos, Pos(0, 0), Pos(100, 0), Pos(200, 0), Pos(0, 200)}
    ELSE {NoPos, Pos(50, 0)}

NodeRecordsOf(id) ==
    { [gender |-> <<g>>, x |-> p.x, y |-> p.y] : g \in Genders, p \in PositionsOf(id) }

\* the by-id dictionaries of the node lists
NodeDicts ==
    UNION { { nd \in [present -> UNION {NodeRecordsOf(id) : id \in Ids}] :
                \A id \in present : nd[id] \in NodeRecordsOf(id) } :
            present \in SUBSET Ids }

EdgeRecords ==
    { e \in [source : Ids, target : Ids, label : {"parent_of", "spouse_of"}] :
        e.source # e.target }

EdgeLists == UNION { [1..n -> EdgeRecords] : n \in 0..MaxEdges }

\* rule records, as load() builds them from CSV rows
Info(chain, title) == [title |-> title, aliases |-> <<title>>, chain |-> chain]

Dict(infos) == [k \in {i.chain : i \in infos} |-> CHOOSE i \in infos : i.chain = k]

BasePrimary ==
    { Info(A_f, <<"ba", "ba">>), Info(A_m, <<"ma", "ma">>),
      Info(A_s, <<"er", "zi">>), Info(A_d, <<"nv", "er">>),
      Info(A_h, <<"lao", "gong">>), Info(A_w, <<"lao", "po">>),
      Info(C(<<A_f, A_f>>), <<"ye", "ye">>), Info(C(<<A_f, A_m>>), <<"nai", "nai">>) }

SiblingPrimary ==
    { Info(A_ob, <<"ge", "ge">>), Info(A_lb, <<"di", "di">>),
      Info(A_os, <<"jie", "jie">>), Info(A_ls, <<"mei", "mei">>) }

R_brothers == Info(<<"[", "o", "b", "|", "l", "b", "|", "x", "b", "]">>, <<"xiong", "di">>)
R_elders   == Info(<<"[", "o", "b", "|", "o", "s", "]">>, <<"xiong", "jie">>)
R_inlaws   == Info(V_M0 \o <<",">> \o V_G1, <<"gong", "po">>)
R_sisters  == Info(V_G0 \o <<",", "[", "x", "s", "|", "o", "s", "|", "l", "s", "]">>, <<"jie", "mei">>)

\* KinshipData.__init__ (lines 45-53)
NewKinshipData ==
    [primary_rules |-> <<>>, combined_rules |-> <<>>, branch_rules |-> <<>>,
     input_rules |-> <<>>, prefix_rules |-> <<>>, pair_rules |-> <<>>,
     dialect_rules |-> <<>>, _loaded |-> FALSE]

\* a store as load() leaves it for a table of primary, combined and branch rows
Store(primary, combined, branch) ==
    [NewKinshipData EXCEPT !.primary_rules = Dict(primary),
                           !.combined_rules = combined,
                           !.branch_rules = branch,
                           !._loaded = TRUE]

\* three rule tables: with and without the sibling titles in the primary
\* tier, and one with no combined tier
RuleStores ==
    { Store(BasePrimary \cup SiblingPrimary, <<R_brothers, R_elders>>, <<R_inlaws, R_sisters>>),
      Store(BasePrimary, <<R_brothers, R_elders>>, <<R_inlaws, R_sisters>>),
      Store(SiblingPrimary, <<>>, <<R_inlaws, R_sisters>>) }

NoRequest == [source_id |-> "", target_id |-> "", nodes |-> <<>>, edges |-> <<>>]
NoResult  == Result(<<>>, <<>>, <<>>, "", <<>>)

NoCall == [fn |-> "", args |-> <<>>, ret |-> <<>>]

\* the number of threads serving requests
NumThreads == 2
Threads == 1..NumThreads

NoFrame == [inst |-> 0, row |-> 0, pattern |-> <<>>, ret |-> <<>>]

IdleInfer == req = NoRequest /\ result = NoResult /\ locals = NoLocals
IdleCall == call = NoCall
IdleThreads ==
    /\ pc = [t \in Threads |-> "idle"]
    /\ frame = [t \in Threads |-> NoFrame]
    /\ instances = <<>>
    /\ _data_instance = 0
    /\ _combined_regex_cache = <<>>
    /\ hist = [created |-> 0, load_bodies |-> 0, writes |-> <<>>]

(***************************************************************************)
(* Spec: requests answered by infer_kinship from a loaded rule store       *)
(***************************************************************************)
Init ==
    /\ data \in RuleStores
    /\ IdleInfer /\ IdleCall /\ IdleThreads

\* POST /api/calculate: one whole run of infer_kinship
Answer(source_id, target_id, nodes, edges) ==
    /\ req' = [source_id |-> source_id, target_id |-> target_id,
               nodes |-> nodes, edges |-> edges]
    /\ \E out \in infer_kinship(data, source_id, target_id, nodes, edges) :
          /\ result' = out[1]
          /\ locals' = out[2]
    /\ UNCHANGED <<data, call, threadVars>>

InferKinship ==
    /\ req = NoRequest
    /\ \E target_id \in {"a", "b"}, nodes \in NodeDicts, edges \in EdgeLists :
          Answer("a", target_id, nodes, edges)

\* the response is sent and the request frame dropped
Respond ==
    /\ req # NoRequest
    /\ req' = NoRequest
    /\ result' = NoResult
    /\ locals' = NoLocals
    /\ UNCHANGED <<data, call, threadVars>>

Next == InferKinship \/ Respond

Spec == Init /\ [][Next]_vars

(***************************************************************************)
(* Calls of the helper functions on bounded inputs                         *)
(***************************************************************************)
InitCalls ==
    /\ data = NewKinshipData
    /\ IdleInfer /\ IdleCall /\ IdleThreads

Call(fn, args, ret) ==
    /\ call = NoCall
    /\ call' = [fn |-> fn, args |-> args, ret |-> ret]
    /\ UNCHANGED <<inferVars, threadVars>>

Return ==
    /\ call # NoCall
    /\ call' = NoCall
    /\ UNCHANGED <<inferVars, threadVars>>

\* the longest chain given to _try_with_elder_younger, in atoms
MaxChain == 2

Chains == { C(atoms) : atoms \in UNION { [1..n -> Alphabet] : n \in 0..MaxChain } }

TryWithElderYounger ==
    \E chain \in Chains :
        Call("_try_with_elder_younger", <<chain>>, try_with_elder_younger(chain))

NextVariants == TryWithElderYounger \/ Return

SpecVariants == InitCalls /\ [][NextVariants]_vars

\* the longest signature given to _signature_to_chain
MaxSig == 3

SignatureElements ==
    { <<action, gender>> : action \in {"parent", "child", "spouse"}, gender \in Genders }

Signatures == UNION { [1..n -> SignatureElements] : n \in 0..MaxSig }

\* the path 1, 2, .. of a signature; the source (1) and the target (the
\* last node) are laid out or not, and so are the nodes between them
PathOf(signature) == [i \in 1..(Len(signature) + 1) |-> i]

LayoutOf(signature, src, mid, tgt) ==
    [i \in 1..(Len(signature) + 1) |->
        LET pos == IF i = 1 THEN src ELSE IF i = Len(signature) + 1 THEN tgt ELSE mid
        IN [gender |-> <<"M">>, x |-> pos.x, y |-> pos.y]]

SignatureToChain ==
    /\ call = NoCall
    /\ \E signature \in Signatures, src \in PositionsOf("a"),
          mid \in {NoPos, Pos(0, 0)}, tgt \in PositionsOf("b") :
         LET path == PathOf(signature)
             node_data == LayoutOf(signature, src, mid, tgt)
         IN Call("_signature_to_chain", <<signature, path, node_data>>,
                 signature_to_chain(signature, path, node_data))

NextChain == SignatureToChain \/ Return

SpecChain == InitCalls /\ [][NextChain]_vars

\* The family the rank functions are called on: the target t, its spouses a
\* and b, a parent p and a further child c; the edge records of a request
\* are some of these, in any order.
RankIds == {"t", "a", "b", "p", "c"}

Edge(label, source, target) == [source |-> source, target |-> target, label |-> label]

RankEdgePool ==
    { Edge("spouse_of", "t", "a"), Edge("spouse_of", "b", "t"),
      Edge("parent_of", "p", "b"), Edge("parent_of", "p", "c"),
      Edge("parent_of", "p", "t"), Edge("parent_of", "p", "a"),
      Edge("parent_of", "t", "a"), Edge("parent_of", "a", "b") }

\* the longest edge list of such a request
MaxRankEdges == 4

RankEdgeLists ==
    UNION { { es \in [1..n -> RankEdgePool] :
                \A i \in 1..n, j \in 1..n : i # j => es[i] # es[j] } :
            n \in 0..MaxRankEdges }

RankPositionsOf(id) ==
    IF id = "b" THEN {NoPos, Pos(0, 0), Pos(100, 0)}
    ELSE IF id = "c" THEN {NoPos, Pos(50, 0)}
    ELSE IF id = "t" THEN {NoPos, Pos(70, 0)}
    ELSE {NoPos}

\* the gender field of a node record may be missing
RankGendersOf(id) ==
    IF id = "t" THEN {<<>>, <<"M">>}
    ELSE IF id = "p" THEN {<<"M">>}
    ELSE {<<"M">>, <<"F">>}

RankNodeRecordsOf(id) ==
    { [gender |-> g, x |-> p.x, y |-> p.y] :
        g \in RankGendersOf(id), p \in RankPositionsOf(id) }

RankNodeDicts ==
    { [id \in RankIds |->
          CASE id = "t" -> rt [] id = "a" -> ra [] id = "b" -> rb
            [] id = "p" -> rp [] OTHER -> rc] :
        rt \in RankNodeRecordsOf("t"), ra \in RankNodeRecordsOf("a"),
        rb \in RankNodeRecordsOf("b"), rp \in RankNodeRecordsOf("p"),
        rc \in RankNodeRecordsOf("c") }

GetRankAmongSiblings ==
    /\ call = NoCall
    /\ \E node_data \in RankNodeDicts, edges \in RankEdgeLists :
         LET G == build_graph(node_data, edges) IN
         \E rt \in get_rank_among_siblings(G, node_data, "t") :
             Call("_get_rank_among_siblings", <<G, node_data, "t">>, rt)

\* the largest rank and total given to _apply_rank_to_title
MaxRank == 3

ApplyRankToTitle ==
    \E title \in {<<"ge", "ge">>, <<"tang", "ge">>, <<"er", "zi">>},
       rank \in 0..MaxRank, total \in 0..MaxRank :
        Call("_apply_rank_to_title", <<title, rank, total>>,
             apply_rank_to_title(title, rank, total))

NextRank == GetRankAmongSiblings \/ ApplyRankToTitle \/ Return

SpecRank == InitCalls /\ [][NextRank]_vars

(***************************************************************************)
(* The list lookups called on rule lists of any order                     *)
(***************************************************************************)

\* combined rows: two overlapping groups, an unclosed group, a group after
\* a plain atom
CombinedPool ==
    { R_brothers, R_elders,
      Info(<<"[", "o", "b", "|", "l", "b">>, <<"ge", "di">>),
      Info(<<"f", ",", "[", "f", "|", "m", "]">>, <<"zu", "fu", "mu">>),
      Info(<<"[", "o", "b", "]">>, <<"ge", "ge">>) }

\* branch rows: templates that overlap, and one with an unclosed group
BranchPool ==
    { R_inlaws, R_sisters,
      Info(V_G1 \o <<",", "[", "f">>, <<"zu", "bei">>),
      Info(V_M0 \o <<",", "[", "f", "|", "m", "]">>, <<"yue", "fu", "mu">>),
      Info(V_G0 \o <<",", "[", "o", "s", "|", "o", "b", "]">>, <<"xiong", "jie">>) }

\* the longest rule list
MaxRules == 3

RuleLists(pool) == UNION { [1..n -> pool] : n \in 0..MaxRules }

LookupChains ==
    { <<>>, A_ob, A_lb, A_os, A_xs, A_f, C(<<A_f, A_f>>), C(<<A_f, A_m>>),
      C(<<A_h, A_f>>), C(<<A_w, A_m>>) }

LookupCombined ==
    /\ call = NoCall
    /\ \E rules \in RuleLists(CombinedPool), chain \in LookupChains :
         LET self == Store({}, rules, <<>>)
         IN Call("lookup_combined", <<self, chain>>, lookup_combined(self, chain))

LookupBranch ==
    /\ call = NoCall
    /\ \E rules \in RuleLists(BranchPool), chain \in LookupChains :
         LET self == Store({}, <<>>, rules)
         IN Call("lookup_branch", <<self, chain>>, lookup_branch(self, chain))

NextLookup == LookupCombined \/ LookupBranch \/ Return

SpecLookup == InitCalls /\ [][NextLookup]_vars

(***************************************************************************)
(* _path_to_graph_signature called on the paths of a built graph           *)
(***************************************************************************)

\* edge records over a, b and c, with both labels and both directions over
\* the same pair, so that a later record overwrites an earlier one
PathEdgePool ==
    { Edge("spouse_of", "a", "b"), Edge("spouse_of", "b", "a"),
      Edge("parent_of", "a", "b"), Edge("parent_of", "b", "a"),
      Edge("parent_of", "b", "c"), Edge("parent_of", "c", "b"),
      Edge("spouse_of", "c", "b"), Edge("spouse_of", "a", "c") }

\* the longest edge list of these graphs
MaxPathEdges == 3

PathEdgeLists == UNION { [1..n -> PathEdgePool] : n \in 0..MaxPathEdges }

\* node lists: a node may be missing from the list, or lack its gender
PathNodeRecordsOf(id) ==
    IF id = "a" THEN {<<>>, <<[gender |-> <<"M">>]>>, <<[gender |-> <<>>]>>}
    ELSE IF id = "b" THEN {<<>>, <<[gender |-> <<"M">>]>>, <<[gender |-> <<"F">>]>>}
    ELSE {<<[gender |-> <<"M">>]>>, <<[gender |-> <<"F">>]>>}

PathNodeDicts ==
    { LET rec(id) == IF id = "a" THEN ra ELSE IF id = "b" THEN rb ELSE rc
      IN [id \in {i \in Ids : rec(i) # <<>>} |->
             [gender |-> rec(id)[1].gender, x |-> <<>>, y |-> <<>>]] :
        ra \in PathNodeRecordsOf("a"), rb \in PathNodeRecordsOf("b"),
        rc \in PathNodeRecordsOf("c") }

\* the paths of the undirected projection: no node twice, each hop an edge
SimplePaths(G) ==
    UNION { { path \in [1..n -> G.nodes] :
                /\ \A i \in 1..n, j \in 1..n : i # j => path[i] # path[j]
                /\ \A i \in 1..(n-1) : Adjacent(G, path[i], path[i+1]) } :
            n \in 1..Cardinality(G.nodes) }

\* the outcome of a call: the signature, or the KeyError of line 49
SignatureOutcome(G, path, node_data) ==
    IF SignatureRaises(path, node_data)
    THEN [raised |-> TRUE, signature |-> <<>>]
    ELSE [raised |-> FALSE, signature |-> path_to_graph_signature(G, path, node_data)]

PathToGraphSignature ==
    /\ call = NoCall
    /\ \E node_data \in PathNodeDicts, edges \in PathEdgeLists :
         LET G == build_graph(node_data, edges) IN
         \E path \in SimplePaths(G) :
            Call("_path_to_graph_signature", <<G, path, node_data>>,
                 SignatureOutcome(G, path, node_data))

NextSignature == PathToGraphSignature \/ Return

SpecSignature == InitCalls /\ [][NextSignature]_vars

(***************************************************************************)
(* _expand_template called on comma-separated patterns                     *)
(***************************************************************************)

\* tokens: atoms, a group, and catalog variables with no, one, two, four and
\* eight expansions
TemplateTokens ==
    { A_f, A_ob, <<"[", "x", "s", "|", "o", "s", "]">>,
      V_G0, V_G1M, V_G1, V_Mm1, V_G2, V_M2M }

\* the longest pattern, in tokens
MaxTokens == 3

TemplatePatterns ==
    { C(tokens) : tokens \in UNION { [1..n -> TemplateTokens] : n \in 1..MaxTokens } }

ExpandTemplate ==
    /\ call = NoCall
    /\ \E pattern \in TemplatePatterns :
         Call("_expand_template", <<pattern>>, expand_template(pattern))

NextExpand == ExpandTemplate \/ Return

SpecExpand == InitCalls /\ [][NextExpand]_vars

(***************************************************************************)
(* Threads: get_kinship_data and _combined_pattern_to_regex run by the     *)
(* request threads without a lock                                          *)
(***************************************************************************)

\* category names of the CSV (romanized)
CAT_PRIMARY  == "zhuyao guanxi"
CAT_COMBINED == "bingcheng guanxi"
CAT_BRANCH   == "fenzhi guanxi"
CAT_INPUT    == "shuru guanxi"
CAT_PREFIX   == "fenzhi qianzhui"
CAT_PAIR     == "guanxi hecheng"
CAT_DIALECT  == "yueyu fangyan"

\* the rows of the CSV after the header: a primary, a combined and a dialect
\* rule, a row with an empty chain and a row with too few columns
CsvRows ==
    << <<CAT_PRIMARY, A_f, <<"ba", "ba">>>>,
       <<CAT_COMBINED, R_brothers.chain, R_brothers.title>>,
       <<CAT_BRANCH, <<>>, <<"gong", "po">>>>,
       <<CAT_DIALECT>> >>

\* _parse_csv_row for a row without an alias column: <<>> is None
parse_csv_row(row) ==
    IF Len(row) < 3 THEN <<>>
    ELSE << [category |-> row[1], chain |-> row[2], title |-> row[3],
             aliases |-> <<row[3]>>] >>

Put(dict, key, value) ==
    [k \in DOMAIN dict \cup {key} |-> IF k = key THEN value ELSE dict[k]]

\* one turn of the loop of load() on the store self
load_row(self, row) ==
    LET parsed == parse_csv_row(row) IN
    IF parsed = <<>> \/ parsed[1].chain = <<>> THEN self
    ELSE LET cat  == parsed[1].category
             info == [title |-> parsed[1].title, aliases |-> parsed[1].aliases,
                      chain |-> parsed[1].chain]
         IN CASE cat = CAT_PRIMARY  -> [self EXCEPT !.primary_rules = Put(@, info.chain, info)]
              [] cat = CAT_COMBINED -> [self EXCEPT !.combined_rules = Append(@, info)]
              [] cat = CAT_BRANCH   -> [self EXCEPT !.branch_rules = Append(@, info)]
              [] cat = CAT_INPUT    -> [self EXCEPT !.input_rules = Put(@, info.chain, info)]
              [] cat = CAT_PREFIX   -> [self EXCEPT !.prefix_rules = Append(@, info)]
              [] cat = CAT_PAIR     -> [self EXCEPT !.pair_rules = Append(@, info)]
              [] cat = CAT_DIALECT  ->
                    [self EXCEPT !.dialect_rules =
                        Put(@, cat, Append(IF cat \in DOMAIN @ THEN @[cat] ELSE <<>>, info))]
              [] OTHER -> self

Goto(t, label) == pc' = [pc EXCEPT ![t] = label]

\* get_kinship_data, line 235: the test of the global
CheckInstance(t) ==
    /\ pc[t] = "idle"
    /\ Goto(t, IF _data_instance = 0 THEN "create" ELSE "return")
    /\ UNCHANGED <<inferVars, call, frame, instances, _data_instance,
                   _combined_regex_cache, hist>>

\* line 236: a new store is made and the global is set to it
CreateInstance(t) ==
    /\ pc[t] = "create"
    /\ instances' = Append(instances, NewKinshipData)
    /\ _data_instance' = Len(instances) + 1
    /\ hist' = [hist EXCEPT !.created = @ + 1]
    /\ Goto(t, "load")
    /\ UNCHANGED <<inferVars, call, frame, _combined_regex_cache>>

\* line 237 and lines 57-58: load() is called on the store the global names
\* now; it returns at once when the store is loaded
EnterLoad(t) ==
    /\ pc[t] = "load"
    /\ frame' = [frame EXCEPT ![t].inst = _data_instance, ![t].row = 1]
    /\ IF instances[_data_instance]._loaded
       THEN Goto(t, "return") /\ UNCHANGED hist
       ELSE Goto(t, "rows") /\ hist' = [hist EXCEPT !.load_bodies = @ + 1]
    /\ UNCHANGED <<inferVars, call, instances, _data_instance, _combined_regex_cache>>

\* lines 64-89: one row is read and filed
LoadRow(t) ==
    /\ pc[t] = "rows"
    /\ frame[t].row <= Len(CsvRows)
    /\ instances' = [instances EXCEPT ![frame[t].inst] = load_row(@, CsvRows[frame[t].row])]
    /\ frame' = [frame EXCEPT ![t].row = @ + 1]
    /\ UNCHANGED <<inferVars, call, pc, _data_instance, _combined_regex_cache, hist>>

\* line 91
FinishLoad(t) ==
    /\ pc[t] = "rows"
    /\ frame[t].row > Len(CsvRows)
    /\ instances' = [instances EXCEPT ![frame[t].inst]._loaded = TRUE]
    /\ Goto(t, "return")
    /\ UNCHANGED <<inferVars, call, frame, _data_instance, _combined_regex_cache, hist>>

\* line 238: the global is read again for the value returned
ReturnInstance(t) ==
    /\ pc[t] = "return"
    /\ frame' = [frame EXCEPT ![t].ret = <<_data_instance>>]
    /\ Goto(t, "done")
    /\ UNCHANGED <<inferVars, call, instances, _data_instance, _combined_regex_cache, hist>>

\* the caller takes the value and the thread is free again
ThreadDone(t) ==
    /\ pc[t] = "done"
    /\ frame' = [frame EXCEPT ![t] = NoFrame]
    /\ Goto(t, "idle")
    /\ UNCHANGED <<inferVars, call, instances, _data_instance, _combined_regex_cache, hist>>

NextLoad ==
    \E t \in Threads :
        \/ CheckInstance(t)
        \/ CreateInstance(t)
        \/ EnterLoad(t)
        \/ LoadRow(t)
        \/ FinishLoad(t)
        \/ ReturnInstance(t)
        \/ ThreadDone(t)

SpecLoad == InitCalls /\ [][NextLoad]_vars

\* the patterns the threads compile: a group, a plain chain, an unclosed group
CachePatterns == { R_brothers.chain, C(<<A_f, A_m>>), <<"[", "f">> }

\* a store that keeps only the entry written
CacheStore_evicting(cache, pattern, compiled) ==
    [p \in {pattern} |-> compiled]

\* lines 175 and 178: _combined_regex_cache[pattern] = compiled
CacheStore(cache, pattern, compiled) ==
    [p \in DOMAIN cache \cup {pattern} |-> IF p = pattern THEN compiled ELSE cache[p]]

\* line 158: the test of the cache; line 159 on a hit
LookupRegex(t) ==
    /\ pc[t] = "idle"
    /\ \E pattern \in CachePatterns :
          IF pattern \in DOMAIN _combined_regex_cache
          THEN /\ frame' = [frame EXCEPT ![t].pattern = pattern,
                                         ![t].ret = <<_combined_regex_cache[pattern]>>]
               /\ Goto(t, "done")
          ELSE /\ frame' = [frame EXCEPT ![t].pattern = pattern]
               /\ Goto(t, "compile")
    /\ UNCHANGED <<inferVars, call, instances, _data_instance, _combined_regex_cache, hist>>

\* lines 161-179: the pattern is compiled and stored, None when it is malformed
StoreRegex(t) ==
    /\ pc[t] = "compile"
    /\ LET pattern  == frame[t].pattern
           compiled == Compile(pattern)
       IN /\ _combined_regex_cache' = CacheStore(_combined_regex_cache, pattern, compiled)
          /\ hist' = [hist EXCEPT !.writes =
                         Put(@, pattern, IF pattern \in DOMAIN @ THEN @[pattern] + 1 ELSE 1)]
          /\ frame' = [frame EXCEPT ![t].ret = <<compiled>>]
    /\ Goto(t, "done")
    /\ UNCHANGED <<inferVars, call, instances, _data_instance>>

NextCache ==
    \E t \in Threads :
        \/ LookupRegex(t)
        \/ StoreRegex(t)
        \/ ThreadDone(t)

SpecCache == InitCalls /\ [][NextCache]_vars

(***************************************************************************)
(* Properties of infer_kinship                                             *)
(***************************************************************************)
Tiers == {"primary", "combined", "branch", "fallback"}
Answered == req # NoRequest
Matched == Answered /\ result.match_type \in Tiers

HitPrimary(v)  == lookup_primary(data, v) # <<>>
HitCombined(v) == lookup_combined(data, v) # <<>>
HitBranch(v)   == lookup_branch(data, v) # <<>>
HitAny(v)      == HitPrimary(v) \/ HitCombined(v) \/ HitBranch(v)

\* the least index of vs whose element satisfies P (some element does)
Earliest(vs, P(_)) ==
    CHOOSE k \in 1..Len(vs) : P(vs[k]) /\ \A j \in 1..(k-1) : ~P(vs[j])
Some(vs, P(_)) == \E k \in 1..Len(vs) : P(vs[k])

\* C1 as stated: the variants are tried one by one, each against primary,
\* then combined, then branch; the earliest variant that matches any tier is
\* the returned chain, with the highest tier that this variant matches.
C1_VariantMajor ==
    Matched =>
        LET vs == locals.variants IN
        IF Some(vs, HitAny)
        THEN LET v == vs[Earliest(vs, HitAny)] IN
             /\ result.chain = v
             /\ result.match_type =
                   (IF HitPrimary(v) THEN "primary"
                    ELSE IF HitCombined(v) THEN "combined" ELSE "branch")
        ELSE result.match_type = "fallback"

\* C1 amended: the tiers are tried one by one, each against every variant in
\* list order.  match_type is the highest tier that some variant matches and
\* the returned chain is the earliest variant matching that tier; with no
\* match in any tier the outcome is fallback with the canonical chain.
C1_TierMajor ==
    Matched =>
        LET vs == locals.variants IN
        IF Some(vs, HitPrimary)
        THEN result.match_type = "primary"
             /\ result.chain = vs[Earliest(vs, HitPrimary)]
        ELSE IF Some(vs, HitCombined)
        THEN result.match_type = "combined"
             /\ result.chain = vs[Earliest(vs, HitCombined)]
        ELSE IF Some(vs, HitBranch)
        THEN result.match_type = "branch"
             /\ result.chain = vs[Earliest(vs, HitBranch)]
        ELSE result.match_type = "fallback" /\ result.chain = locals.chain

\* a later variant's primary hit is returned although the canonical chain
\* matches a combined rule
C1_Witness ==
    /\ Matched
    /\ req.source_id \in DOMAIN req.nodes /\ req.target_id \in DOMAIN req.nodes
    /\ result.match_type = "primary"
    /\ result.chain # locals.variants[1]
    /\ HitCombined(locals.variants[1])

\* C2 as stated: the rank is skipped exactly for a signature that is all
\* Parent or all Child; a sibling hop (Parent then Child) to a target with
\* at least two same-gender siblings gets total >= 2.
PureLineal(signature) ==
    \/ \A i \in 1..Len(signature) : signature[i][1] = "parent"
    \/ \A i \in 1..Len(signature) : signature[i][1] = "child"

C2_SkippedIffPureLineal ==
    Matched =>
        /\ locals.is_direct <=> PureLineal(locals.signature)
        /\ ( /\ Len(locals.signature) = 2
             /\ locals.signature[1][1] = "parent"
             /\ locals.signature[2][1] = "child"
             /\ direct_total(locals.G, req.nodes, req.target_id) >= 2 )
           => locals.total >= 2

\* C3 as stated: infer_kinship never raises, whatever the ids and edges
C3_NeverRaises ==
    Answered =>
        result.match_type \in {"primary", "combined", "branch", "fallback", "none", "error"}

\* well-formed request: both ids are listed nodes (genders are M or F in
\* every request of the model)
WellFormed ==
    /\ Answered
    /\ req.source_id \in DOMAIN req.nodes
    /\ req.target_id \in DOMAIN req.nodes

AtomsOf(chain) == Range(Split(chain, ","))

\* C4 as stated: the chain is empty only for none and error; for the four
\* matching outcomes it is non-empty and over the alphabet.
C4_EmptyOnlyNoneError ==
    WellFormed =>
        /\ result.chain = <<>> => result.match_type \in {"none", "error", "raise"}
        /\ result.match_type \in Tiers =>
              result.chain # <<>> /\ AtomsOf(result.chain) \subseteq Alphabet

\* C4 amended: for the four matching outcomes the chain is empty exactly
\* when source_id = target_id (the path has no hop), and otherwise it is
\* non-empty and over the alphabet; for none and error it is empty.
C4_EmptyIffSameId ==
    WellFormed =>
        /\ result.match_type \in {"none", "error"} => result.chain = <<>>
        /\ result.match_type \in Tiers =>
              /\ result.chain = <<>> <=> req.source_id = req.target_id
              /\ result.chain # <<>> => AtomsOf(result.chain) \subseteq Alphabet

\* a matched relative reached over two hops, with a suffixed final atom
C4_Witness ==
    /\ WellFormed
    /\ req.source_id # req.target_id
    /\ result.match_type \in Tiers
    /\ Len(Split(result.chain, ",")) = 2
    /\ HasSuffix(Split(result.chain, ",")[2])

\* C6 as stated: in the graph _build_graph returns, u->v is spouse_of
\* exactly when v->u is spouse_of.
IsSpouse(G, u, v) == has_edge(G, u, v) /\ Relation(G, u, v) = "spouse_of"

C6_SpouseSymmetric ==
    Answered =>
        \A u \in Ids, v \in Ids : IsSpouse(locals.G, u, v) <=> IsSpouse(locals.G, v, u)

(***************************************************************************)
(* Properties of _try_with_elder_younger                                   *)
(***************************************************************************)
VariantsCall == call.fn = "_try_with_elder_younger"

\* C9: the returned list starts with the given chain, holds it exactly
\* once, holds no entry twice, and is the chain alone when the chain has no
\* sibling atom and its last atom has no &o / &l suffix.
C9_CanonicalFirstOnce ==
    VariantsCall =>
        LET chain == call.args[1]
            vs    == call.ret
            atoms == Split(chain, ",")
        IN /\ Len(vs) >= 1 /\ vs[1] = chain
           /\ Cardinality({k \in 1..Len(vs) : vs[k] = chain}) = 1
           /\ \A i \in 1..Len(vs), j \in 1..Len(vs) : i # j => vs[i] # vs[j]
           /\ ( /\ \A k \in 1..Len(atoms) : atoms[k] \notin SiblingAtoms
                /\ ~EndsWith(atoms[Len(atoms)], <<"&", "o">>)
                /\ ~EndsWith(atoms[Len(atoms)], <<"&", "l">>) )
              => vs = <<chain>>

\* a chain with a sibling atom and a suffixed last atom, and its variants
C9_Witness ==
    /\ VariantsCall
    /\ call.args[1] = C(<<A_xb, A_so>>)
    /\ Len(call.ret) > 5
    /\ C(<<A_ob, A_s>>) \in Range(call.ret)

(***************************************************************************)
(* Properties of _signature_to_chain                                       *)
(***************************************************************************)
ChainCall == call.fn = "_signature_to_chain"

ElderYoungerAtoms == {A_ob, A_lb, A_os, A_ls}

\* the atom of a step that is not part of a Parent-Child pair (spec.md 3)
PlainAtom(step) ==
    IF step = <<"parent", "M">> THEN A_f
    ELSE IF step = <<"parent", "F">> THEN A_m
    ELSE IF step = <<"child", "M">> THEN A_s
    ELSE IF step = <<"child", "F">> THEN A_d
    ELSE IF step = <<"spouse", "M">> THEN A_h
    ELSE A_w

\* position by position: a Parent followed by a Child gives xb or xs (by
\* the Child's gender), the Child of such a pair gives nothing, any other
\* step gives its plain atom
CollapsedAtoms(signature) ==
    LET n == Len(signature) IN
    Flatten([i \in 1..n |->
        IF signature[i][1] = "parent" /\ i < n /\ signature[i+1][1] = "child"
        THEN <<IF signature[i+1][2] = "M" THEN A_xb ELSE A_xs>>
        ELSE IF signature[i][1] = "child" /\ i > 1 /\ signature[i-1][1] = "parent"
        THEN <<>>
        ELSE <<PlainAtom(signature[i])>>])

\* C10: ob, lb, os, ls are emitted only for a signature that is exactly one
\* Parent step then one Child step, with both x known and different, and
\* with o exactly when the target's x is smaller; in a longer signature
\* every Parent-Child pair is one xb / xs atom whatever the coordinates
\* (the chain, up to the suffix of its last atom, is the collapsed one).
C10_ElderYoungerOnlyDirect ==
    ChainCall =>
        LET signature == call.args[1]
            node_data == call.args[3]
            src   == node_data[1]
            tgt   == node_data[Len(signature) + 1]
            parts == IF call.ret = <<>> THEN <<>> ELSE Split(call.ret, ",")
            n     == Len(parts)
        IN /\ \A k \in 1..n :
                parts[k] \in ElderYoungerAtoms =>
                   /\ Len(signature) = 2
                   /\ signature[1][1] = "parent" /\ signature[2][1] = "child"
                   /\ Known(src.x) /\ Known(tgt.x) /\ src.x # tgt.x
                   /\ parts[k] \in {A_ob, A_os} <=> tgt.x[1] < src.x[1]
           /\ Len(signature) > 2 =>
                [k \in 1..n |-> IF k = n THEN Split(parts[k], "&")[1] ELSE parts[k]]
                    = CollapsedAtoms(signature)

\* an uncle: Parent, Parent, Child with source and target laid out left and
\* right of each other, encoded with xb
C10_Witness ==
    /\ ChainCall
    /\ call.args[1] = << <<"parent", "M">>, <<"parent", "F">>, <<"child", "M">> >>
    /\ Known(call.args[3][1].x) /\ Known(call.args[3][4].x)
    /\ call.args[3][1].x # call.args[3][4].x
    /\ call.ret = C(<<A_f, A_xb>>)

(***************************************************************************)
(* Properties of the rank functions                                        *)
(***************************************************************************)

RankCall == call # NoCall /\ call.fn = "_get_rank_among_siblings"

\* gender of a node as the request is read: M when the field is missing
GenderOf(node_data, n) == GetOr(node_data[n].gender, "M")

IsParentOf(G, p, c) == has_edge(G, p, c) /\ Relation(G, p, c) = "parent_of"

\* the same-gender cohort of n: the children of n's parents that have n's
\* gender, n included
Cohort(G, node_data, n) ==
    {c \in G.nodes \cap DOMAIN node_data :
        /\ GenderOf(node_data, c) = GenderOf(node_data, n)
        /\ \E p \in G.nodes : IsParentOf(G, p, n) /\ IsParentOf(G, p, c)}

\* (rank, total) is the place of n in its cohort sorted by x
FromCohort(G, node_data, n, rank, total) ==
    LET cohort == Cohort(G, node_data, n)
        x(c)   == get_x(node_data, c)
    IN /\ total = Cardinality(cohort)
       /\ n \in cohort
       /\ Cardinality({c \in cohort : x(c) < x(n)}) < rank
       /\ rank <= Cardinality({c \in cohort : x(c) <= x(n)})

\* C8: _get_rank_among_siblings returns (0,0) or a pair with total >= 2 and
\* 1 <= rank <= total; the pair is the target's place in its own same-gender
\* cohort when that cohort has at least two members, and otherwise the place
\* of the first spouse whose cohort has at least two members; and
\* _apply_rank_to_title leaves the title unchanged whenever total < 2.
C8_RankFromCohort ==
    /\ RankCall =>
          LET G         == call.args[1]
              node_data == call.args[2]
              target_id == call.args[3]
              rank      == call.ret[1]
              total     == call.ret[2]
              ranked    == SelectSeq(SpouseCandidates(G, target_id),
                               LAMBDA n : Cardinality(Cohort(G, node_data, n)) >= 2)
          IN /\ \/ rank = 0 /\ total = 0
                \/ total >= 2 /\ 1 <= rank /\ rank <= total
             /\ IF Cardinality(Cohort(G, node_data, target_id)) >= 2
                THEN FromCohort(G, node_data, target_id, rank, total)
                ELSE IF ranked # <<>>
                THEN FromCohort(G, node_data, ranked[1], rank, total)
                ELSE rank = 0 /\ total = 0
    /\ (call # NoCall /\ call.fn = "_apply_rank_to_title") =>
          (call.args[3] < 2 => call.ret = call.args[1])

(***************************************************************************)
(* Properties of the threads                                               *)
(***************************************************************************)

\* C5: whatever the interleaving of the get_kinship_data callers, at most
\* one KinshipData is created and the body of load() runs at most once.
C5_LoadedAtMostOnce ==
    /\ hist.created <= 1
    /\ hist.load_bodies <= 1

WrittenOnce == \A p \in DOMAIN hist.writes : hist.writes[p] <= 1

EntriesKept ==
    \A p \in DOMAIN _combined_regex_cache :
        /\ p \in DOMAIN _combined_regex_cache'
        /\ _combined_regex_cache'[p] = _combined_regex_cache[p]

\* C7 as stated: an entry of _combined_regex_cache is never removed and never
\* changes, and each key is written at most once.
C7_MonotonicWrittenOnce == [][EntriesKept]_vars /\ []WrittenOnce

\* C7, amended: an entry of _combined_regex_cache is never removed and its
\* value never changes, under any interleaving; a key may be written again
\* by a caller that missed it, with the same value.
C7_EntriesKept == [][EntriesKept]_vars

\* a key has been written by two callers
C7_Witness ==
    \E p \in DOMAIN hist.writes :
        /\ hist.writes[p] = 2
        /\ p \in DOMAIN _combined_regex_cache
        /\ _combined_regex_cache[p] = Compile(p)

(***************************************************************************)
(* Properties of the list lookups                                          *)
(***************************************************************************)

LookupCall == call # NoCall /\ call.fn \in {"lookup_combined", "lookup_branch"}

\* the list scanned by the call and the test it applies to a rule
ScannedRules ==
    IF call.fn = "lookup_combined" THEN call.args[1].combined_rules
    ELSE call.args[1].branch_rules

RuleMatches(rule) ==
    IF call.fn = "lookup_combined" THEN match_combined_pattern(rule.chain, call.args[2])
    ELSE match_branch_pattern(rule.chain, call.args[2])

\* a '[' with no ']' after it
Unclosed(pattern) ==
    \E i \in 1..Len(pattern) :
        pattern[i] = "[" /\ \A j \in (i+1)..Len(pattern) : pattern[j] # "]"

\* C11: lookup_combined and lookup_branch return the earliest rule of the
\* list whose pattern matches the chain, None when no rule matches; a rule
\* with an unclosed '[' is never returned and the rules after it are tried.
C11_EarliestRuleWins ==
    LookupCall =>
        LET rules == ScannedRules
            good(k) == ~Unclosed(rules[k].chain) /\ RuleMatches(rules[k])
        IN IF \E k \in 1..Len(rules) : good(k)
           THEN \E k \in 1..Len(rules) :
                   /\ good(k)
                   /\ \A j \in 1..(k-1) : ~good(j)
                   /\ call.ret = <<rules[k]>>
           ELSE call.ret = <<>>

\* an unclosed rule first, then two different rules that both match: the
\* second rule of the list is returned
C11_Witness ==
    /\ LookupCall
    /\ Len(ScannedRules) = 3
    /\ Unclosed(ScannedRules[1].chain)
    /\ RuleMatches(ScannedRules[2]) /\ RuleMatches(ScannedRules[3])
    /\ ScannedRules[2] # ScannedRules[3]
    /\ call.ret = <<ScannedRules[2]>>

(***************************************************************************)
(* Properties of _path_to_graph_signature                                  *)
(***************************************************************************)

SignatureCall == call # NoCall /\ call.fn = "_path_to_graph_signature"

ExpandCall == call # NoCall /\ call.fn = "_expand_template"

IsVariable(token) == token \in DOMAIN TEMPLATE_VARS

\* the product of the expansion-list sizes of the variables among tokens
RECURSIVE ExpansionProduct(_)
ExpansionProduct(tokens) ==
    IF tokens = <<>> THEN 1
    ELSE (IF IsVariable(Head(tokens)) THEN Len(TEMPLATE_VARS[Head(tokens)]) ELSE 1)
         * ExpansionProduct(Tail(tokens))

\* the token lists the pattern stands for, leftmost variable first: each
\* variable replaced by one of its expansions, an empty expansion dropped
RECURSIVE Instances(_)
Instances(tokens) ==
    IF tokens = <<>> THEN << <<>> >>
    ELSE LET options == IF IsVariable(Head(tokens)) THEN TEMPLATE_VARS[Head(tokens)]
                        ELSE <<Head(tokens)>>
             rests   == Instances(Tail(tokens))
         IN Flatten([k \in 1..Len(options) |->
                [j \in 1..Len(rests) |->
                    IF options[k] = <<>> THEN rests[j]
                    ELSE <<options[k]>> \o rests[j]]])

CommaClean(str) ==
    /\ str # <<>> => str[1] # "," /\ str[Len(str)] # ","
    /\ \A i \in 1..(Len(str) - 1) : ~(str[i] = "," /\ str[i+1] = ",")

\* C13: for a comma-separated pattern of atoms, groups and catalog
\* variables, _expand_template returns as many strings as the product of the
\* expansion-list sizes of its variables; no string holds a variable, starts
\* or ends with a comma or has two adjacent commas; and the strings are the
\* pattern with each variable replaced by an expansion, an empty expansion
\* taking the variable away with one neighbouring comma.
C13_ExpansionProduct ==
    ExpandCall =>
        LET tokens   == Split(call.args[1], ",")
            expanded == call.ret
        IN /\ Len(expanded) = ExpansionProduct(tokens)
           /\ \A k \in 1..Len(expanded) :
                 /\ \A i \in 1..Len(expanded[k]) : expanded[k][i] \notin {"{", "}"}
                 /\ CommaClean(expanded[k])
           /\ expanded = [k \in 1..Len(expanded) |-> C(Instances(tokens)[k])]

\* {G0} between two tokens, one of them a variable with several expansions
C13_Witness ==
    /\ ExpandCall
    /\ call.args[1] = C(<<V_G1, V_G0, A_ob>>)
    /\ call.ret = <<C(<<A_f, A_ob>>), C(<<A_m, A_ob>>)>>

(***************************************************************************)
(* Properties of the returned store                                        *)
(***************************************************************************)

\* a thread is inside the body of load() on the store i
LoadInProgress(i) == \E u \in Threads : pc[u] = "rows" /\ frame[u].inst = i

\* C14: whatever the interleaving, the store get_kinship_data returns to a
\* caller is loaded at the moment it is returned: its _loaded flag is true
\* and no thread is still inside load() on it.
C14_ReturnedStoreLoaded ==
    \A t \in Threads :
        pc[t] = "done" /\ frame[t].ret # <<>> /\ frame[t].ret # <<0>> =>
            /\ instances[frame[t].ret[1]]._loaded
            /\ ~LoadInProgress(frame[t].ret[1])

====
